---- MODULE Spec2Model ----
\* Model of runner/litechat.py: download the release archive into the working
\* directory, extract it, delete the archive, then serve the directory over
\* HTTP with the SPA fallback of SPAHandler.do_GET.
EXTENDS Integers, Sequences, FiniteSets, TLC

\* ---------------------------------------------------------------- bounds
MaxContent == 2      \* distinct file contents 1..MaxContent
MaxEntries == 2      \* entries in a downloaded archive
MaxRuns == 2         \* successive runs of the script on the same directory

\* ------------------------------------------------------- program constants
DefaultPort == 3000
OtherPort == 8080
MaxPort == 65535
EphemeralPort == 49152
Omitted == << >>     \* no positional port on the command line
Wildcard == "0.0.0.0"
Localhost == "localhost"

\* ------------------------------------------------------------ file system
\* A path is a sequence of segments relative to the working directory.
Contents == 1..MaxContent
Node(kind, data) == [kind |-> kind, data |-> data]
Absent == Node("absent", 0)
Dir == Node("dir", 0)
ZipData == Node("archive", 0)      \* complete downloaded archive bytes
PartialData == Node("partial", 0)  \* bytes of an interrupted download
File(c) == Node("file", c)

Root == << >>
IndexFile == <<"index.html">>
AppPath == <<"app">>                  \* a file in one release, a directory in another
AppIndex == <<"app", "index.html">>
zip_path == <<"litechat.zip">>

Paths == {IndexFile, AppPath, AppIndex, zip_path}
DirPaths == {AppPath}

Nodes == {Absent, Dir, ZipData, PartialData} \cup {File(c) : c \in Contents}

Lookup(f, p) == IF p = Root THEN Dir ELSE IF p \in Paths THEN f[p] ELSE Absent

Front(p) == SubSeq(p, 1, Len(p) - 1)

RECURSIVE PathExists(_, _)
PathExists(f, p) ==
  IF p = Root THEN TRUE
  ELSE /\ Lookup(f, p) # Absent
       /\ Lookup(f, Front(p)) = Dir
       /\ PathExists(f, Front(p))

IsDirPath(f, p) == PathExists(f, p) /\ Lookup(f, p) = Dir
IsFilePath(f, p) == PathExists(f, p) /\ Lookup(f, p) # Dir

\* ------------------------------------------------------------ HTTP layer
Methods == {"GET", "HEAD", "POST"}
IndexUrl == <<"index.html">>
\* A request path as its "/"-separated segments after the leading slash; an
\* empty last segment is a trailing slash ("/" is <<"">>).
Urls == { <<"">>, <<"index.html">>, <<"index.html", "">>, <<"app">>,
          <<"app", "">>, <<"app", "index.html">>, <<"missing">> }

RECURSIVE Words(_)
Words(u) ==
  IF u = << >> THEN << >>
  ELSE IF Head(u) \in {"", ".", ".."} THEN Words(Tail(u))
       ELSE <<Head(u)>> \o Words(Tail(u))

translate_path(u) ==
  [path |-> Words(u), slash |-> (u # << >> /\ u[Len(u)] = "")]

\* os.path.exists / os.path.isdir / os.path.isfile on a translated path
os_exists(f, tp) ==
  PathExists(f, tp.path) /\ (tp.slash => Lookup(f, tp.path) = Dir)
os_isdir(f, tp) == IsDirPath(f, tp.path)
os_isfile(f, tp) == IsFilePath(f, tp.path) /\ ~tp.slash

\* a response: status, what the body is, the file served, the Location or
\* the directory listed
Reply(st, kind, body, loc) ==
  [status |-> st, kind |-> kind, body |-> body, loc |-> loc]
NotFound == Reply(404, "error", Absent, << >>)
Unsupported == Reply(501, "error", Absent, << >>)

IndexNames == <<"index.html", "index.htm">>

RECURSIVE FindIndex(_, _, _)
FindIndex(f, d, i) ==
  IF i > Len(IndexNames) THEN Root
  ELSE IF IsFilePath(f, d \o <<IndexNames[i]>>) THEN d \o <<IndexNames[i]>>
       ELSE FindIndex(f, d, i + 1)

OpenFile(f, tp) ==
  IF os_isfile(f, tp) THEN Reply(200, "file", Lookup(f, tp.path), << >>)
  ELSE NotFound

send_head(f, u) ==
  LET tp == translate_path(u) IN
  IF os_isdir(f, tp)
  THEN IF ~tp.slash THEN Reply(301, "redirect", Absent, u \o <<"">>)
       ELSE LET idx == FindIndex(f, tp.path, 1) IN
            IF idx # Root THEN OpenFile(f, [path |-> idx, slash |-> FALSE])
            ELSE Reply(200, "listing", Absent, tp.path)
  ELSE OpenFile(f, tp)

Base_do_GET(f, u) == send_head(f, u)

Base_do_HEAD(f, u) ==
  LET r == send_head(f, u) IN
  IF r.kind \in {"file", "listing"}
  THEN Reply(r.status, "headers", Absent, << >>)
  ELSE r

\* variants of SPA_path: rewrite every request; fall back to "/"
SPA_path_always(f, u) == IndexUrl
SPA_path_root(f, u) == IF ~os_exists(f, translate_path(u)) THEN <<"">> ELSE u

SPA_path(f, u) == IF ~os_exists(f, translate_path(u)) THEN IndexUrl ELSE u

do_GET(f, u) == [path |-> SPA_path(f, u), reply |-> Base_do_GET(f, SPA_path(f, u))]

\* variant of handle_one_request: the fallback also answers HEAD
handle_one_request_head(f, m, u) ==
  IF m \in {"GET", "HEAD"}
  THEN [path |-> SPA_path(f, u),
        reply |-> IF m = "GET" THEN Base_do_GET(f, SPA_path(f, u))
                               ELSE Base_do_HEAD(f, SPA_path(f, u))]
  ELSE [path |-> u, reply |-> Unsupported]

handle_one_request(f, m, u) ==
  IF m = "GET" THEN do_GET(f, u)
  ELSE IF m = "HEAD" THEN [path |-> u, reply |-> Base_do_HEAD(f, u)]
  ELSE [path |-> u, reply |-> Unsupported]

\* ------------------------------------------------------------- archive
Entries == {[path |-> p, node |-> File(c)] : p \in Paths, c \in Contents}
             \cup {[path |-> p, node |-> Dir] : p \in DirPaths}
Archives == UNION {[1..n -> Entries] : n \in 0..MaxEntries}
\* the archives used where the command line, not the release, is varied
FewArchives == {a \in Archives : \A i \in 1..Len(a) : a[i] = [path |-> IndexFile, node |-> File(1)]}

RECURSIVE DirsFree(_, _)
\* os.makedirs(upperdirs) succeeds: no ancestor is a regular file
DirsFree(f, p) ==
  IF p = Root THEN TRUE
  ELSE Lookup(f, p) \in {Absent, Dir} /\ DirsFree(f, Front(p))

IsPrefix(q, p) == Len(q) < Len(p) /\ SubSeq(p, 1, Len(q)) = q

CanExtract(f, e) ==
  /\ DirsFree(f, Front(e.path))
  /\ IF e.node = Dir THEN Lookup(f, e.path) \in {Absent, Dir}
                     ELSE Lookup(f, e.path) # Dir

extract_member(f, e) ==
  [p \in Paths |->
     IF p = e.path THEN e.node
     ELSE IF IsPrefix(p, e.path) THEN Dir
     ELSE f[p]]

os_remove(f, p) == [f EXCEPT ![p] = Absent]

\* ------------------------------------------------------------ arguments
PortArgs == {Omitted, <<0>>, <<OtherPort>>}
Argvs == [port : PortArgs, host : BOOLEAN]

parse_args(a) ==
  [port |-> IF a.port = Omitted THEN DefaultPort ELSE a.port[1], host |-> a.host]

\* variant of bind_host: always the wildcard address
bind_host_any(a) == Wildcard

bind_host(a) == IF a.host THEN Wildcard ELSE Localhost

EphemeralPorts == {EphemeralPort}
bound_ports(port) == IF port = 0 THEN EphemeralPorts ELSE {port}

Sources == {"loopback", "remote"}
\* a socket bound to localhost is reachable from the machine itself only
Reachable(host, src) == host = Wildcard \/ src = "loopback"

\* ---------------------------------------------------------------- state
VARIABLES argv, args, run, pc, dirExists, fs, prev, zip_ref, written, done,
          failedAt, listening, server_address, exitCode, req, resp

vars == <<argv, args, run, pc, dirExists, fs, prev, zip_ref, written, done,
          failedAt, listening, server_address, exitCode, req, resp>>

None == "none"
NoAddress == [host |-> None, port |-> 0]
NoReq == [method |-> None, url |-> << >>, src |-> None]
NoResp == [path |-> << >>, reply |-> Reply(0, None, Absent, << >>)]
\* the connection never reaches the listening socket
Refused == [path |-> << >>, reply |-> Reply(0, "refused", Absent, << >>)]
EmptyFs == [p \in Paths |-> Absent]

NoArgv == [port |-> Omitted, host |-> FALSE]

Launch(AV) ==
  /\ argv \in AV
  /\ args = parse_args(argv)
  /\ run = 1
  /\ pc = "start"
  /\ dirExists = FALSE
  /\ fs = EmptyFs
  /\ prev = EmptyFs
  /\ zip_ref = << >>
  /\ written = EmptyFs
  /\ done = {}
  /\ failedAt = None
  /\ listening = FALSE
  /\ server_address = NoAddress
  /\ exitCode = << >>
  /\ req = NoReq
  /\ resp = NoResp

Init == Launch({NoArgv})
InitArgs == Launch(Argvs)

\* variant of MakeDirs: the directory is emptied before the download
MakeDirs_clear ==
  /\ pc = "start"
  /\ dirExists' = TRUE
  /\ fs' = EmptyFs
  /\ pc' = "download"
  /\ UNCHANGED <<argv, args, run, prev, zip_ref, written, done, failedAt,
                 listening, server_address, exitCode, req, resp>>

\* lines 18-22: os.makedirs(temp_dir, exist_ok=True); os.chdir(temp_dir)
MakeDirs ==
  /\ pc = "start"
  /\ dirExists' = TRUE
  /\ pc' = "download"
  /\ UNCHANGED <<argv, args, run, fs, prev, zip_ref, written, done, failedAt,
                 listening, server_address, exitCode, req, resp>>

\* line 28: request.urlretrieve(url, zip_path) returns
DownloadOk(AS) ==
  /\ pc = "download"
  /\ \E a \in AS : zip_ref' = a
  /\ written' = EmptyFs
  /\ fs' = [fs EXCEPT ![zip_path] = ZipData]
  /\ done' = done \cup {"download"}
  /\ pc' = "extract"
  /\ UNCHANGED <<argv, args, run, dirExists, prev, failedAt, listening,
                 server_address, exitCode, req, resp>>

\* variant of DownloadFail: the error is swallowed and extraction goes on
DownloadFail_swallow ==
  /\ pc = "download"
  /\ fs' = [fs EXCEPT ![zip_path] = PartialData]
  /\ pc' = "extract"
  /\ UNCHANGED <<argv, args, run, dirExists, prev, zip_ref, written, done,
                 failedAt, listening, server_address, exitCode, req, resp>>

\* line 28: request.urlretrieve raises, before or after opening zip_path
DownloadFail ==
  /\ pc = "download"
  /\ \E n \in {fs[zip_path], PartialData} : fs' = [fs EXCEPT ![zip_path] = n]
  /\ failedAt' = "download"
  /\ pc' = "handler"
  /\ UNCHANGED <<argv, args, run, dirExists, prev, zip_ref, written, done,
                 listening, server_address, exitCode, req, resp>>

\* lines 32-33: one member of zip_ref.extractall(temp_dir)
ExtractMember ==
  /\ pc = "extract"
  /\ zip_ref # << >>
  /\ IF CanExtract(fs, Head(zip_ref))
     THEN /\ fs' = extract_member(fs, Head(zip_ref))
          /\ written' = [written EXCEPT ![Head(zip_ref).path] = Head(zip_ref).node]
          /\ zip_ref' = Tail(zip_ref)
          /\ UNCHANGED <<pc, failedAt>>
     ELSE /\ failedAt' = "extract"
          /\ pc' = "handler"
          /\ UNCHANGED <<fs, zip_ref, written>>
  /\ UNCHANGED <<argv, args, run, dirExists, prev, done, listening,
                 server_address, exitCode, req, resp>>

\* lines 32-33: ZipFile() or extractall raises (bad archive, write error)
ExtractFail ==
  /\ pc = "extract"
  /\ failedAt' = "extract"
  /\ pc' = "handler"
  /\ UNCHANGED <<argv, args, run, dirExists, fs, prev, zip_ref, written, done,
                 listening, server_address, exitCode, req, resp>>

\* variant of RemoveZip: the archive is left in place
RemoveZip_keep ==
  /\ pc = "extract"
  /\ zip_ref = << >>
  /\ done' = done \cup {"extract", "remove"}
  /\ pc' = "bind"
  /\ UNCHANGED <<argv, args, run, dirExists, fs, prev, zip_ref, written,
                 failedAt, listening, server_address, exitCode, req, resp>>

\* lines 33-37: extractall returns, the archive is closed and removed
RemoveZip ==
  /\ pc = "extract"
  /\ zip_ref = << >>
  /\ fs' = os_remove(fs, zip_path)
  /\ done' = done \cup {"extract", "remove"}
  /\ pc' = "bind"
  /\ UNCHANGED <<argv, args, run, dirExists, prev, zip_ref, written, failedAt,
                 listening, server_address, exitCode, req, resp>>

\* lines 46-47: HTTPServer((host, args.port), SPAHandler) binds and listens
BindOk ==
  /\ pc = "bind"
  /\ args.port \in 0..MaxPort
  /\ \E p \in bound_ports(args.port) :
        server_address' = [host |-> bind_host(args), port |-> p]
  /\ listening' = TRUE
  /\ done' = done \cup {"bind"}
  /\ pc' = "resolve"
  /\ UNCHANGED <<argv, args, run, dirExists, fs, prev, zip_ref, written,
                 failedAt, exitCode, req, resp>>

\* line 47: the constructor raises (port in use, not permitted, out of range)
BindFail ==
  /\ pc = "bind"
  /\ failedAt' = "bind"
  /\ pc' = "handler"
  /\ UNCHANGED <<argv, args, run, dirExists, fs, prev, zip_ref, written, done,
                 listening, server_address, exitCode, req, resp>>

\* lines 49-52: gethostname / gethostbyname succeed, the message is printed
ResolveOk ==
  /\ pc = "resolve"
  /\ pc' = "serve"
  /\ UNCHANGED <<argv, args, run, dirExists, fs, prev, zip_ref, written, done,
                 failedAt, listening, server_address, exitCode, req, resp>>

\* line 50: socket.gethostbyname(hostname) raises socket.gaierror
ResolveFail ==
  /\ pc = "resolve"
  /\ failedAt' = "resolve"
  /\ pc' = "handler"
  /\ UNCHANGED <<argv, args, run, dirExists, fs, prev, zip_ref, written, done,
                 listening, server_address, exitCode, req, resp>>

\* line 54 with lines 40-44: serve_forever handles one connection
HandleRequest ==
  /\ pc = "serve"
  /\ \E src \in Sources :
        IF Reachable(server_address.host, src)
        THEN \E m \in Methods, u \in Urls :
               /\ req' = [method |-> m, url |-> u, src |-> src]
               /\ resp' = handle_one_request(fs, m, u)
        ELSE /\ req' = [method |-> None, url |-> << >>, src |-> src]
             /\ resp' = Refused
  /\ UNCHANGED <<argv, args, run, pc, dirExists, fs, prev, zip_ref, written,
                 done, failedAt, listening, server_address, exitCode>>

\* variant of Handler: exit without removing the archive
Handler_noCleanup ==
  /\ pc = "handler"
  /\ exitCode' = <<1>>
  /\ listening' = FALSE
  /\ pc' = "exit"
  /\ UNCHANGED <<argv, args, run, dirExists, fs, prev, zip_ref, written, done,
                 failedAt, server_address, req, resp>>

\* lines 56-60: except Exception: remove the archive if present, exit(1)
Handler ==
  /\ pc = "handler"
  /\ fs' = IF Lookup(fs, zip_path) # Absent THEN os_remove(fs, zip_path) ELSE fs
  /\ exitCode' = <<1>>
  /\ listening' = FALSE
  /\ pc' = "exit"
  /\ UNCHANGED <<argv, args, run, dirExists, prev, zip_ref, written, done,
                 failedAt, server_address, req, resp>>

\* the serving process is terminated from outside
Kill ==
  /\ pc = "serve"
  /\ listening' = FALSE
  /\ pc' = "killed"
  /\ UNCHANGED <<argv, args, run, dirExists, fs, prev, zip_ref, written, done,
                 failedAt, server_address, exitCode, req, resp>>

\* the script is started again on the same working directory
Restart(AV) ==
  /\ pc \in {"exit", "killed"}
  /\ run < MaxRuns
  /\ run' = run + 1
  /\ argv' \in AV
  /\ args' = parse_args(argv')
  /\ prev' = fs
  /\ pc' = "start"
  /\ zip_ref' = << >>
  /\ written' = EmptyFs
  /\ done' = {}
  /\ failedAt' = None
  /\ server_address' = NoAddress
  /\ exitCode' = << >>
  /\ req' = NoReq
  /\ resp' = NoResp
  /\ UNCHANGED <<dirExists, fs, listening>>

Next ==
  \/ MakeDirs
  \/ DownloadOk(Archives)
  \/ DownloadFail
  \/ ExtractMember
  \/ ExtractFail
  \/ RemoveZip
  \/ BindOk
  \/ BindFail
  \/ ResolveOk
  \/ ResolveFail
  \/ HandleRequest
  \/ Handler
  \/ Kill
  \/ Restart({NoArgv})

\* runs with no command-line arguments, every release archive
Spec == Init /\ [][Next]_vars

NextArgs ==
  \/ MakeDirs
  \/ DownloadOk(FewArchives)
  \/ DownloadFail
  \/ ExtractMember
  \/ ExtractFail
  \/ RemoveZip
  \/ BindOk
  \/ BindFail
  \/ ResolveOk
  \/ ResolveFail
  \/ HandleRequest
  \/ Handler
  \/ Kill
  \/ Restart(Argvs)

\* runs with every command line, a fixed release content
SpecArgs == InitArgs /\ [][NextArgs]_vars

TypeOK ==
  /\ fs \in [Paths -> Nodes]
  /\ pc \in {"start", "download", "extract", "bind", "resolve", "serve",
              "handler", "exit", "killed"}
  /\ run \in 1..MaxRuns
  /\ (fs[AppIndex] # Absent => fs[AppPath] = Dir)

\* ================================================================ claims
IsGet == req.method = "GET"
ReqPath == translate_path(req.url)
NonEmpty(f) == \E p \in Paths : f[p] # Absent
Extracted == "remove" \in done
\* the member paths of the archive of this run: those extracted so far and
\* those still to extract
WrittenPaths == {p \in Paths : written[p] # Absent}
ArchivePaths == WrittenPaths \cup {zip_ref[i].path : i \in 1..Len(zip_ref)}
IsStale(p) == prev[p].kind = "file" /\ p \notin ArchivePaths

\* C1 (as stated): a GET for any path that is not an existing file (nothing at
\* all, or a directory) is answered exactly like a GET for /index.html.
C1_NonFileGetsEntryDocument ==
  (IsGet /\ ~os_isfile(fs, ReqPath)) => resp.reply = do_GET(fs, IndexUrl).reply

C4_ExtractedDirNonEmpty ==
  Extracted => dirExists /\ NonEmpty(fs) /\ Lookup(fs, zip_path) = Absent

\* C4 (amended): once download and extraction have completed, the working
\* directory exists and the archive file is absent, in every later state of
\* the run; the directory is non-empty exactly when it had prior content or
\* the archive has an entry at a path other than the archive file's own.
C4_ExtractedDirHoldsRelease ==
  Extracted =>
     /\ dirExists
     /\ Lookup(fs, zip_path) = Absent
     /\ NonEmpty(fs) <=> (NonEmpty(prev) \/ ArchivePaths \ {zip_path} # {})

C4_Witness ==
  /\ Extracted
  /\ pc = "serve"
  /\ run = 1
  /\ Cardinality(WrittenPaths) > 1
  /\ NonEmpty(fs)

\* C5: the stages run in order: extraction only after a completed download,
\* bind and requests only after a completed extraction and the removal of the
\* archive; after a failed download or extraction the server is never started.
C5_StagesInOrder ==
  /\ (pc = "extract" \/ ArchivePaths # {} \/ "extract" \in done) => "download" \in done
  /\ (pc \in {"resolve", "serve"} \/ listening \/ server_address # NoAddress
        \/ req # NoReq \/ "bind" \in done)
       => ({"download", "extract", "remove"} \subseteq done
           /\ Lookup(fs, zip_path) = Absent)
  /\ failedAt \in {"download", "extract"}
       => (~listening /\ server_address = NoAddress /\ req = NoReq
           /\ "bind" \notin done)

C5_Witness ==
  /\ pc = "serve"
  /\ listening
  /\ req.method = "GET"
  /\ WrittenPaths # {}
  /\ done = {"download", "extract", "remove", "bind"}

\* C6 (as stated): the bind address depends on --host only (localhost when
\* unset, refusing non-loopback sources; 0.0.0.0 when set) and the port bound
\* is the positional port argument, 3000 when omitted.
C6_BindsHostFlagAndPortArgument ==
  /\ listening =>
       /\ server_address.host = IF argv.host THEN Wildcard ELSE Localhost
       /\ server_address.port =
            IF argv.port = Omitted THEN DefaultPort ELSE argv.port[1]
  /\ (~argv.host /\ req.src = "remote") => resp = Refused

\* C6 (amended): as stated, except that a port argument of 0 makes the
\* system choose the port bound.
C6_BindsHostFlagAndNonZeroPort ==
  /\ listening =>
       /\ server_address.host = IF argv.host THEN Wildcard ELSE Localhost
       /\ argv.port = Omitted => server_address.port = DefaultPort
       /\ argv.port \notin {Omitted, <<0>>} => server_address.port = argv.port[1]
       /\ argv.port = <<0>> => server_address.port \in EphemeralPorts
  /\ (~argv.host /\ req.src = "remote") => resp = Refused
  /\ (argv.host /\ req.src = "remote") => resp # Refused

C6_Witness ==
  /\ listening
  /\ ~argv.host
  /\ argv.port = <<OtherPort>>
  /\ server_address = [host |-> Localhost, port |-> OtherPort]
  /\ req.src = "remote"
  /\ resp = Refused

\* C7: with no index.html under the document root, a GET for a path that
\* does not exist is rewritten to /index.html once and answered as not found,
\* and the server is still listening afterwards.
C7_MissingEntryDocumentIsNotFound ==
  (IsGet /\ ~PathExists(fs, IndexFile) /\ ~os_exists(fs, ReqPath)) =>
     /\ resp.path = IndexUrl
     /\ resp.reply = NotFound
     /\ exitCode = << >>
     /\ pc = "killed" \/ (pc = "serve" /\ listening)

C7_Witness ==
  /\ IsGet
  /\ req.url = <<"missing">>
  /\ fs[IndexFile] = Absent
  /\ fs[AppPath] = Dir
  /\ resp.reply = NotFound
  /\ pc = "serve"
  /\ listening

\* C8 (as stated): once the listening socket is bound the program never exits
\* with status 1 through its own error handler.
C8_NoHandlerExitAfterBind ==
  exitCode = <<1>> => "bind" \notin done

\* C9 (as stated): a request with a method other than GET for a path that
\* does not exist keeps its path and is answered as not found.
C9_OtherMethodsNotFound ==
  (req.method \in Methods \ {"GET"} /\ ~os_exists(fs, ReqPath)) =>
     resp.path = req.url /\ resp.reply = NotFound

\* C9 (amended): a request with a method other than GET for a path that does
\* not exist keeps its path and never gets the entry document: HEAD is
\* answered as not found, a method the static-file handler does not implement
\* as unsupported.
C9_OtherMethodsNoFallback ==
  (req.method \in Methods \ {"GET"} /\ ~os_exists(fs, ReqPath)) =>
     /\ resp.path = req.url
     /\ resp.reply = IF req.method = "HEAD" THEN NotFound ELSE Unsupported

C9_Witness ==
  /\ req.method = "HEAD"
  /\ req.url = <<"missing">>
  /\ fs[IndexFile].kind = "file"
  /\ resp.reply = NotFound

\* C10: the working directory is never cleared: a file left by an earlier run
\* at a path that is not an entry of the new archive is unchanged by download
\* and extraction and is served afterwards, one at a path that is an entry has
\* the new content once extraction has completed, and only the archive file is
\* ever deleted.
C10_StaleKept ==
  \A p \in Paths :
    /\ IsStale(p) => fs[p] = prev[p]
    /\ (IsStale(p) /\ IsGet /\ ReqPath = [path |-> p, slash |-> FALSE])
         => resp.reply = Reply(200, "file", prev[p], << >>)
    /\ (Extracted /\ prev[p].kind = "file" /\ p \in ArchivePaths)
         => fs[p] = written[p]

C10_OnlyArchiveDeleted ==
  \A p \in Paths : (fs[p] # Absent /\ fs'[p] = Absent) => p = zip_path

C10_DirectoryNeverCleared == [](C10_StaleKept) /\ [][C10_OnlyArchiveDeleted]_vars

C10_Witness ==
  /\ run = 2
  /\ pc = "serve"
  /\ prev[IndexFile] = File(1)
  /\ fs[IndexFile] = File(2)
  /\ IsStale(AppPath)
  /\ IsGet
  /\ req.url = <<"app">>
  /\ resp.reply.body = prev[AppPath]

====
